---- MODULE Spec2Model ----
(***************************************************************************)
(* Model of the App Store Connect / Xcode Cloud client                     *)
(* (src/xcode_cloud_automation.py, class XcodeCloudAutomation).            *)
(*                                                                         *)
(* State: the client's token cache (self.token, self.token_expiry), the    *)
(* system clock, the file at download_artifact's output_path, a log of the *)
(* signings, and two views of the calls:                                   *)
(*   - Spec: one caller; every client operation is one atomic action, its  *)
(*     result is handed to the caller in `last`, and the clock advances    *)
(*     between calls.                                                      *)
(*   - SpecConc: several threads share one client; _generate_jwt_token is  *)
(*     executed statement by statement, the threads interleaved at will.   *)
(*   - SpecSetup: as Spec, for a client constructed with any one of its    *)
(*     four configuration values None.                                     *)
(* Time is in seconds.  time.time() and datetime.now() read the same       *)
(* clock `now`, and a call takes less than one second of it: the clock     *)
(* advances while no call is in progress.                                  *)
(* A Python Optional value is None == <<>> or <<v>>.                       *)
(***************************************************************************)
EXTENDS Integers, Sequences, FiniteSets, TLC

VARIABLES
    config,         \* issuer_id, key_id, private_key_path, app_id: None or <<v>>
    now,            \* the system clock, in seconds
    token,          \* self.token: None or <<signed token>>
    token_expiry,   \* self.token_expiry: None or <<time>>
    signLog,        \* history: the clock reading of every signing, in order
    expirySig,      \* history: the signing that set token_expiry (0: none)
    file,           \* content of output_path: None (no file) or <<chunks>>
    last,           \* the last completed call of the sequential client
    pc,             \* per thread: its position in the call (SpecConc)
    loc             \* per thread: its local variables (SpecConc)

vars == <<config, now, token, token_expiry, signLog, expirySig, file, last, pc, loc>>

\* ------------------------------------------------------------------ bounds

\* At most this many signings in one behaviour.
MaxSigns == 3
\* Longest `data` array a server response carries.
MaxData == 2
\* Most chunks a streamed response body has.
MaxChunks == 2
\* Number of threads sharing the client in SpecConc.
NumThreads == 2

\* ------------------------------------------------------- program constants

\* 'exp': int(time.time()) + 1200
TokenLifetime == 1200
\* timedelta(minutes=19), in seconds
RefreshAfter == 1140
\* limit: int = 20
DefaultLimit == 20

base_url == "https://api.appstoreconnect.apple.com/v1"

\* ------------------------------------------------------------ Python values

None == <<>>
Some(v) == <<v>>

\* bool(v) of an Optional[str]: None and "" are falsy.
Truthy(v) == v # None /\ v[1] # ""

\* f"{v}" of an Optional[str].
Str(v) == IF v = None THEN "None" ELSE v[1]

\* dict.get(key "data", default) on a parsed JSON object.
GetData(d, default) == IF "data" \in DOMAIN d THEN d.data ELSE default

\* ------------------------------------------------------------- environment

\* The instants at which the clock is sampled: the boundaries of the first
\* two refresh windows and the scenario times 1100 s and 1150 s.
ClockInstants == {0, 1100, 1139, 1140, 1150, 2279, 2280}

\* The HTTP statuses the server answers with.
Statuses == {200, 304, 403}

DataOfLen(k) == [i \in 1..k |-> i]

\* The chunks of a streamed body, in the order the server sends them.
ChunksOfLen(k) == [i \in 1..k |-> i]

\* Response bodies: not JSON at all, a JSON object without `data`, and JSON
\* objects with a `data` array of 0..MaxData entries.
Bodies ==
    {[kind |-> "html", data |-> <<>>],
     [kind |-> "errors", data |-> <<>>]}
    \cup {[kind |-> "data", data |-> DataOfLen(k)] : k \in 0..MaxData}

\* The bodies of an artifact download: 0..MaxChunks chunks of bytes.
ByteBodies == {[kind |-> "bytes", data |-> ChunksOfLen(k)] : k \in 0..MaxChunks}

\* response.json(): None stands for the JSONDecodeError.
ParseJson(body) ==
    CASE body.kind = "errors" -> Some([errors |-> "Forbidden"])
      [] body.kind = "data" -> Some([data |-> body.data])
      [] OTHER -> None

NoBody == [kind |-> "html", data |-> <<>>]

NoResponse == [failed |-> TRUE, status |-> 0, body |-> NoBody]

\* What the transport gives back for one HTTP request: a failure to get any
\* response, or a response with a status and a body.
Responses ==
    {NoResponse}
    \cup {[failed |-> FALSE, status |-> s, body |-> b] : s \in Statuses, b \in Bodies}

ByteResponses ==
    {NoResponse}
    \cup {[failed |-> FALSE, status |-> s, body |-> b] : s \in Statuses, b \in ByteBodies}

\* The inputs of one call: what the signer meets ("ok", "nokey": the key file
\* cannot be read, "fail": jwt.encode raises), the response, and for a
\* streamed body the number of chunks, fewer than the body has, after which
\* the transport breaks (None: it does not).  A failing signer never gets to
\* a response.
InputsOver(resps) ==
    {[signer |-> s, resp |-> NoResponse, breakAfter |-> None] : s \in {"nokey", "fail"}}
    \cup {[signer |-> "ok", resp |-> r, breakAfter |-> None] : r \in resps}

Inputs == InputsOver(Responses)

DownloadInputs ==
    InputsOver(ByteResponses)
    \cup {in \in [signer : {"ok"}, resp : ByteResponses,
                   breakAfter : {Some(k) : k \in 0..MaxChunks}] :
            ~in.resp.failed /\ in.breakAfter[1] < Len(in.resp.body.data)}

\* --------------------------------------------------------- token lifecycle

\* Mutants of the test of line 35: the comparison turned round, and made
\* non-strict.
CacheValid_Reversed(tok, exp, t) == tok # None /\ exp # None /\ t > exp[1]

CacheValid_NonStrict(tok, exp, t) == tok # None /\ exp # None /\ t <= exp[1]

\* line 35: self.token and self.token_expiry and datetime.now() < self.token_expiry
CacheValid(tok, exp, t) == tok # None /\ exp # None /\ t < exp[1]

\* lines 43-48: the JWT payload (iss and aud are fixed per client).
Payload(t) == [iat |-> t, exp |-> t + TokenLifetime]

\* lines 51-54: jwt.encode; n numbers the signing (an ES256 signature is
\* fresh on every call, so two signings never give the same token).
Encode(p, n) == [iat |-> p.iat, exp |-> p.exp, sig |-> n]

\* line 56: datetime.now() + timedelta(minutes=19)
NewExpiry(t) == t + RefreshAfter

\* Mutant of lines 39-56: the expiry stored before the key is read, so that a
\* failing signer leaves the new expiry beside the old token.
GenerateJwtToken_ExpiryFirst(c, t, signer) ==
    IF CacheValid(c.token, c.token_expiry, t)
    THEN [cache |-> c, raised |-> "", ret |-> c.token]
    ELSE IF config.private_key_path = None
    THEN [cache |-> c, raised |-> "TypeError", ret |-> None]
    ELSE IF signer = "nokey"
    THEN [cache |-> [c EXCEPT !.token_expiry = Some(NewExpiry(t))],
          raised |-> "OSError", ret |-> None]
    ELSE IF signer = "fail"
    THEN [cache |-> [c EXCEPT !.token_expiry = Some(NewExpiry(t))],
          raised |-> "EncodeError", ret |-> None]
    ELSE LET tok == Encode(Payload(t), Len(c.signLog) + 1)
         IN  [cache |-> [token |-> Some(tok),
                         token_expiry |-> Some(NewExpiry(t)),
                         signLog |-> Append(c.signLog, t),
                         expirySig |-> tok.sig],
              raised |-> "", ret |-> Some(tok)]

\* _generate_jwt_token run as a whole at clock t on cache c.
\* raised = "" when it returns; ret is the returned token.  open(None)
\* raises TypeError (line 39); what jwt.encode does with an issuer or a key
\* id of None is the library's choice, so there the signer is left free to
\* sign or to fail.
GenerateJwtToken(c, t, signer) ==
    IF CacheValid(c.token, c.token_expiry, t)
    THEN [cache |-> c, raised |-> "", ret |-> c.token]
    ELSE IF config.private_key_path = None
    THEN [cache |-> c, raised |-> "TypeError", ret |-> None]
    ELSE IF signer = "nokey"
    THEN [cache |-> c, raised |-> "OSError", ret |-> None]
    ELSE IF signer = "fail"
    THEN [cache |-> c, raised |-> "EncodeError", ret |-> None]
    ELSE LET tok == Encode(Payload(t), Len(c.signLog) + 1)
         IN  [cache |-> [token |-> Some(tok),
                         token_expiry |-> Some(NewExpiry(t)),
                         signLog |-> Append(c.signLog, t),
                         expirySig |-> tok.sig],
              raised |-> "", ret |-> Some(tok)]

Cache ==
    [token |-> token, token_expiry |-> token_expiry, signLog |-> signLog,
     expirySig |-> expirySig]

\* ----------------------------------------------------------------- dispatch

\* The outcome of a call: a returned value or a raised exception.  An
\* HTTPError carries the response it was raised for.
Return(v) ==
    [kind |-> "return", exc |-> "", status |-> 0, body |-> NoBody, value |-> Some(v)]

Raise(e) ==
    [kind |-> "raise", exc |-> e, status |-> 0, body |-> NoBody, value |-> None]

RaiseHttp(resp) ==
    [kind |-> "raise", exc |-> "HTTPError", status |-> resp.status,
     body |-> resp.body, value |-> None]

\* requests' Response.raise_for_status(): raises for 4xx and 5xx.
RaisesForStatus(status) == 400 <= status /\ status < 600

\* Mutant of lines 62-65: the Content-Type entry left out.
JsonHeaders_NoContentType(tok) == ("Authorization" :> <<"Bearer", tok>>)

\* lines 62-65
JsonHeaders(tok) ==
    ("Authorization" :> <<"Bearer", tok>>) @@ ("Content-Type" :> <<"application/json">>)

\* line 162
BearerHeaders(tok) == ("Authorization" :> <<"Bearer", tok>>)

\* lines 69-76: the methods the dispatch branch accepts.
SupportedMethods == {"GET", "POST", "DELETE"}

\* lines 70, 72, 74, 164: only requests.post passes json=data.
Request(method, endpoint, headers, data, stream, t) ==
    [method |-> method, url |-> base_url \o endpoint, headers |-> headers,
     json |-> IF method = "POST" THEN data ELSE None, stream |-> stream, at |-> t]

\* lines 78-79: raise_for_status(), then response.json().
ParsedOrRaise(resp) ==
    IF resp.failed THEN Raise("ConnectionError")
    ELSE IF RaisesForStatus(resp.status) THEN RaiseHttp(resp)
    ELSE IF ParseJson(resp.body) = None THEN Raise("JSONDecodeError")
    ELSE Return(ParseJson(resp.body)[1])

\* Mutant of lines 61-76: the method tested before the token is asked for.
MakeRequest_CheckFirst(c, t, f, endpoint, method, data, in) ==
    LET g == GenerateJwtToken(c, t, in.signer)
    IN  IF method \notin SupportedMethods
        THEN [cache |-> c, tok |-> None, sent |-> <<>>,
              outcome |-> Raise("ValueError"), file |-> f]
        ELSE IF g.raised # ""
        THEN [cache |-> g.cache, tok |-> None, sent |-> <<>>,
              outcome |-> Raise(g.raised), file |-> f]
        ELSE [cache |-> g.cache, tok |-> g.ret,
              sent |-> <<Request(method, endpoint, JsonHeaders(g.ret[1]), data, FALSE, t)>>,
              outcome |-> ParsedOrRaise(in.resp), file |-> f]

\* _make_request run as a whole at clock t: the new cache, the token
\* _generate_jwt_token returned, the requests sent, the outcome, the file.
MakeRequest(c, t, f, endpoint, method, data, in) ==
    LET g == GenerateJwtToken(c, t, in.signer)
    IN  IF g.raised # ""
        THEN [cache |-> g.cache, tok |-> None, sent |-> <<>>,
              outcome |-> Raise(g.raised), file |-> f]
        ELSE IF method \notin SupportedMethods
        THEN [cache |-> g.cache, tok |-> g.ret, sent |-> <<>>,
              outcome |-> Raise("ValueError"), file |-> f]
        ELSE [cache |-> g.cache, tok |-> g.ret,
              sent |-> <<Request(method, endpoint, JsonHeaders(g.ret[1]), data, FALSE, t)>>,
              outcome |-> ParsedOrRaise(in.resp), file |-> f]

\* response.get('data', default) applied to what _make_request returned.
DataOf(r, default) ==
    IF r.outcome.kind = "return"
    THEN [r EXCEPT !.outcome.value = Some(GetData(r.outcome.value[1], default))]
    ELSE r

\* Mutant of lines 167-169: each chunk written in front of the ones before.
RECURSIVE WriteChunks_Reversed(_, _, _, _)
WriteChunks_Reversed(f, chunks, i, stop) ==
    IF i > Len(chunks) \/ (stop # None /\ i > stop[1])
    THEN f
    ELSE WriteChunks_Reversed(<<chunks[i]>> \o f, chunks, i + 1, stop)

\* lines 167-169: the chunks written one by one to the opened file; the
\* stream breaks after `stop` chunks when stop is not None.
RECURSIVE WriteChunks(_, _, _, _)
WriteChunks(f, chunks, i, stop) ==
    IF i > Len(chunks) \/ (stop # None /\ i > stop[1])
    THEN f
    ELSE WriteChunks(Append(f, chunks[i]), chunks, i + 1, stop)

\* Whether iter_content raises before the body is exhausted.
StreamBreaks(in) == in.breakAfter # None

\* download_artifact run as a whole at clock t on cache c and file f.
DownloadArtifact(c, t, f, artifact_id, in) ==
    LET g == GenerateJwtToken(c, t, in.signer)
        req == Request("GET", "/ciArtifacts/" \o artifact_id \o "/download",
                       BearerHeaders(g.ret[1]), None, TRUE, t)
    IN  IF g.raised # ""
        THEN [cache |-> g.cache, tok |-> None, sent |-> <<>>,
              outcome |-> Raise(g.raised), file |-> f]
        ELSE IF in.resp.failed
        THEN [cache |-> g.cache, tok |-> g.ret, sent |-> <<req>>,
              outcome |-> Raise("ConnectionError"), file |-> f]
        ELSE IF RaisesForStatus(in.resp.status)
        THEN [cache |-> g.cache, tok |-> g.ret, sent |-> <<req>>,
              outcome |-> RaiseHttp(in.resp), file |-> f]
        ELSE [cache |-> g.cache, tok |-> g.ret, sent |-> <<req>>,
              outcome |-> IF StreamBreaks(in) THEN Raise("ChunkedEncodingError")
                          ELSE Return(<<>>),
              file |-> Some(WriteChunks(<<>>, in.resp.body.data, 1, in.breakAfter))]

\* ------------------------------------------------------------------- state

NoArgs ==
    [id |-> "", workflow_id |-> None, limit |-> None,
     branch |-> None, tag |-> None, commit |-> None]

NoCall ==
    [op |-> "none", args |-> NoArgs,
     in |-> [signer |-> "ok", resp |-> NoResponse, breakAfter |-> None],
     entry |-> [token |-> None, token_expiry |-> None, signLog |-> <<>>,
                expirySig |-> 0],
     at |-> 0, tok |-> None, sent |-> <<>>, outcome |-> Raise(""),
     fileBefore |-> None]

Threads == 1..NumThreads

\* A thread's locals: the payload's iat and exp, the number of its signing,
\* the token it was returned, the clock at its call, whether it has sent.
NoLocals == [iat |-> 0, exp |-> 0, sig |-> 0, tok |-> None, at |-> 0, sent |-> FALSE]

\* lines 175-178: the configuration main() constructs the client with.
MainConfig ==
    [issuer_id |-> Some("1fe78bc1-c522-4611-94d9-5e49639f876e"),
     key_id |-> Some("PZZU8CMTA6"),
     private_key_path |-> Some("AuthKey_PZZU8CMTA6.p8"),
     app_id |-> Some("6751781514")]

\* MainConfig, and MainConfig with one of its values None.
Configs == {MainConfig} \cup {[MainConfig EXCEPT ![k] = None] : k \in DOMAIN MainConfig}

\* lines 15-31: __init__ stores the four values as given and empties the
\* cache.
Constructed(cfg) ==
    /\ config = cfg
    /\ token = None
    /\ token_expiry = None

Init ==
    /\ now = 0
    /\ Constructed(MainConfig)
    /\ signLog = <<>>
    /\ expirySig = 0
    /\ file = None
    /\ last = NoCall
    /\ pc = [t \in Threads |-> "idle"]
    /\ loc = [t \in Threads |-> NoLocals]

\* A client constructed with any of the configurations.
InitSetup ==
    /\ now = 0
    /\ \E cfg \in Configs : Constructed(cfg)
    /\ signLog = <<>>
    /\ expirySig = 0
    /\ file = None
    /\ last = NoCall
    /\ pc = [t \in Threads |-> "idle"]
    /\ loc = [t \in Threads |-> NoLocals]

\* The clock advances to a later instant while no call is in progress.
Tick ==
    /\ last.op = "none"
    /\ \A t \in Threads : pc[t] = "idle"
    /\ \E t \in ClockInstants : t > now /\ now' = t
    /\ UNCHANGED <<config, token, token_expiry, signLog, expirySig, file, last, pc, loc>>

\* The caller has taken the result of its call and goes on (main() makes
\* its calls one after the other).
CallerResumes ==
    /\ last.op # "none"
    /\ last' = NoCall
    /\ UNCHANGED <<config, now, token, token_expiry, signLog, expirySig, file, pc, loc>>

\* A client operation called at the current clock and run to its end: r is
\* what it leaves and hands back.
Complete(op, args, in, r) ==
    /\ last.op = "none"
    /\ Len(r.cache.signLog) <= MaxSigns
    /\ token' = r.cache.token
    /\ token_expiry' = r.cache.token_expiry
    /\ signLog' = r.cache.signLog
    /\ expirySig' = r.cache.expirySig
    /\ file' = r.file
    /\ last' = [op |-> op, args |-> args, in |-> in, entry |-> Cache, at |-> now,
                tok |-> r.tok, sent |-> r.sent, outcome |-> r.outcome,
                fileBefore |-> file]
    /\ UNCHANGED <<config, now, pc, loc>>

\* ------------------------------------------------------ client operations

\* line 28: self.app_id, as an f-string formats it.
app_id == Str(config.app_id)

\* The ids the caller passes.
Ids == {"42"}

\* Optional[str] arguments: omitted, empty, or a name.
OptStrs == {None, Some(""), Some("main")}

\* workflow_id of list_builds: omitted, empty, or an id.
OptIds == {None, Some(""), Some("wf-42")}

\* limit of list_builds: omitted (the default applies) or given.
OptLimits == {None, Some(1), Some(5)}

\* lines 81-85
list_workflows ==
    \E in \in Inputs :
        Complete("list_workflows", NoArgs, in,
                 DataOf(MakeRequest(Cache, now, file,
                                    "/apps/" \o app_id \o "/ciWorkflows", "GET", None, in),
                        <<>>))

\* lines 87-91
get_workflow ==
    \E id \in Ids, in \in Inputs :
        Complete("get_workflow", [NoArgs EXCEPT !.id = id], in,
                 DataOf(MakeRequest(Cache, now, file,
                                    "/ciWorkflows/" \o id, "GET", None, in),
                        <<>>))

\* lines 95-100: the endpoint of list_builds.
BuildsEndpoint(workflow_id, limit) ==
    (IF Truthy(workflow_id)
     THEN "/ciWorkflows/" \o Str(workflow_id) \o "/builds"
     ELSE "/apps/" \o app_id \o "/ciBuildRuns")
    \o "?limit=" \o ToString(limit)

\* The value of the parameter `limit: int = 20`.
LimitOf(arg) == IF arg = None THEN DefaultLimit ELSE arg[1]

\* lines 93-102
list_builds ==
    \E w \in OptIds, l \in OptLimits, in \in Inputs :
        Complete("list_builds", [NoArgs EXCEPT !.workflow_id = w, !.limit = l], in,
                 DataOf(MakeRequest(Cache, now, file,
                                    BuildsEndpoint(w, LimitOf(l)), "GET", None, in),
                        <<>>))

\* lines 104-108
get_build ==
    \E id \in Ids, in \in Inputs :
        Complete("get_build", [NoArgs EXCEPT !.id = id], in,
                 DataOf(MakeRequest(Cache, now, file,
                                    "/ciBuildRuns/" \o id, "GET", None, in),
                        <<>>))

\* Mutant of lines 121-126: every ref given put in the map (if / if / if).
RefAttributes_All(branch, tag, commit) ==
    (IF Truthy(branch) THEN ("branch" :> branch[1]) ELSE <<>>)
        @@ (IF Truthy(tag) THEN ("tag" :> tag[1]) ELSE <<>>)
        @@ (IF Truthy(commit) THEN ("commit" :> commit[1]) ELSE <<>>)

\* Mutant of lines 121-126: the arguments tested against None instead of for
\* truth.
RefAttributes_IsNotNone(branch, tag, commit) ==
    IF branch # None THEN ("branch" :> branch[1])
    ELSE IF tag # None THEN ("tag" :> tag[1])
    ELSE IF commit # None THEN ("commit" :> commit[1])
    ELSE <<>>

\* lines 121-126: the ref attributes of the build request.
RefAttributes(branch, tag, commit) ==
    IF Truthy(branch) THEN ("branch" :> branch[1])
    ELSE IF Truthy(tag) THEN ("tag" :> tag[1])
    ELSE IF Truthy(commit) THEN ("commit" :> commit[1])
    ELSE <<>>

\* lines 114-126: the body of trigger_build.
TriggerBody(branch, tag, commit) ==
    [data |-> [type |-> "ciBuildRuns", id |-> None, 
               attributes |-> RefAttributes(branch, tag, commit)]]

\* lines 110-129
trigger_build ==
    \E w \in Ids, b \in OptStrs, g \in OptStrs, c \in OptStrs, in \in Inputs :
        Complete("trigger_build",
                 [NoArgs EXCEPT !.id = w, !.branch = b, !.tag = g, !.commit = c], in,
                 DataOf(MakeRequest(Cache, now, file,
                                    "/ciWorkflows/" \o w \o "/builds", "POST",
                                    Some(TriggerBody(b, g, c)), in),
                        <<>>))

\* lines 134-142: the body of cancel_build.
CancelBody(build_id) ==
    [data |-> [type |-> "ciBuildRuns", id |-> Some(build_id),
               attributes |-> ("canceled" :> TRUE)]]

\* lines 131-144
cancel_build ==
    \E id \in Ids, in \in Inputs :
        Complete("cancel_build", [NoArgs EXCEPT !.id = id], in,
                 DataOf(MakeRequest(Cache, now, file,
                                    "/ciBuildRuns/" \o id, "PATCH",
                                    Some(CancelBody(id)), in),
                        <<>>))

\* lines 146-150
retry_build ==
    \E id \in Ids, in \in Inputs :
        Complete("retry_build", [NoArgs EXCEPT !.id = id], in,
                 DataOf(MakeRequest(Cache, now, file,
                                    "/ciBuildRuns/" \o id \o "/retry", "POST", None, in),
                        <<>>))

\* lines 152-156
get_build_artifacts ==
    \E id \in Ids, in \in Inputs :
        Complete("get_build_artifacts", [NoArgs EXCEPT !.id = id], in,
                 DataOf(MakeRequest(Cache, now, file,
                                    "/ciBuildRuns/" \o id \o "/artifacts", "GET", None, in),
                        <<>>))

\* lines 158-169
download_artifact ==
    \E id \in Ids, in \in DownloadInputs :
        Complete("download_artifact", [NoArgs EXCEPT !.id = id], in,
                 DownloadArtifact(Cache, now, file, id, in))

Next ==
    \/ Tick
    \/ CallerResumes
    \/ list_workflows
    \/ get_workflow
    \/ list_builds
    \/ get_build
    \/ trigger_build
    \/ cancel_build
    \/ retry_build
    \/ get_build_artifacts
    \/ download_artifact

Spec == Init /\ [][Next]_vars

SpecSetup == InitSetup /\ [][Next]_vars

\* ------------------------------------------------- threads sharing a client

seqVars == <<file, last>>

\* lines 61, 161: a thread calls an operation, which calls _generate_jwt_token.
ThreadCalls(t) ==
    /\ pc[t] = "idle"
    /\ pc' = [pc EXCEPT ![t] = "check"]
    /\ loc' = [loc EXCEPT ![t] = [NoLocals EXCEPT !.at = now]]
    /\ UNCHANGED <<config, now, token, token_expiry, signLog, expirySig, seqVars>>

\* lines 35-36: the cache is read; a valid token is returned.
ThreadChecks(t) ==
    /\ pc[t] = "check"
    /\ IF CacheValid(token, token_expiry, now)
       THEN /\ loc' = [loc EXCEPT ![t].tok = token]
            /\ pc' = [pc EXCEPT ![t] = "send"]
       ELSE /\ pc' = [pc EXCEPT ![t] = "payload"]
            /\ UNCHANGED loc
    /\ UNCHANGED <<config, now, token, token_expiry, signLog, expirySig, seqVars>>

\* lines 39-48: the key is read and the payload built.
ThreadBuildsPayload(t) ==
    /\ pc[t] = "payload"
    /\ loc' = [loc EXCEPT ![t].iat = Payload(now).iat, ![t].exp = Payload(now).exp]
    /\ pc' = [pc EXCEPT ![t] = "encode"]
    /\ UNCHANGED <<config, now, token, token_expiry, signLog, expirySig, seqVars>>

\* lines 51-54: the payload is signed and self.token assigned.
ThreadSigns(t) ==
    /\ pc[t] = "encode"
    /\ Len(signLog) < MaxSigns
    /\ LET tok == Encode([iat |-> loc[t].iat, exp |-> loc[t].exp], Len(signLog) + 1)
       IN  /\ token' = Some(tok)
           /\ loc' = [loc EXCEPT ![t].sig = tok.sig]
    /\ signLog' = Append(signLog, loc[t].iat)
    /\ pc' = [pc EXCEPT ![t] = "expiry"]
    /\ UNCHANGED <<config, now, token_expiry, expirySig, seqVars>>

\* line 56: self.token_expiry assigned.
ThreadSetsExpiry(t) ==
    /\ pc[t] = "expiry"
    /\ token_expiry' = Some(NewExpiry(now))
    /\ expirySig' = loc[t].sig
    /\ pc' = [pc EXCEPT ![t] = "return"]
    /\ UNCHANGED <<config, now, token, signLog, loc, seqVars>>

\* line 57: return self.token, read again from the client.
ThreadReturns(t) ==
    /\ pc[t] = "return"
    /\ loc' = [loc EXCEPT ![t].tok = token]
    /\ pc' = [pc EXCEPT ![t] = "send"]
    /\ UNCHANGED <<config, now, token, token_expiry, signLog, expirySig, seqVars>>

\* lines 62-74, 162-164: the request goes out with the returned token.
ThreadSends(t) ==
    /\ pc[t] = "send"
    /\ loc' = [loc EXCEPT ![t].sent = TRUE]
    /\ pc' = [pc EXCEPT ![t] = "idle"]
    /\ UNCHANGED <<config, now, token, token_expiry, signLog, expirySig, seqVars>>

NextConc ==
    \/ Tick
    \/ \E t \in Threads : ThreadCalls(t)
    \/ \E t \in Threads : ThreadChecks(t)
    \/ \E t \in Threads : ThreadBuildsPayload(t)
    \/ \E t \in Threads : ThreadSigns(t)
    \/ \E t \in Threads : ThreadSetsExpiry(t)
    \/ \E t \in Threads : ThreadReturns(t)
    \/ \E t \in Threads : ThreadSends(t)

SpecConc == Init /\ [][NextConc]_vars

\* ------------------------------------------------------------------ claims

\* The safety margin: the token's lifetime less the refresh period.
SafetyMargin == TokenLifetime - RefreshAfter

\* A call has completed and its result is in `last`.
Called == last.op # "none"

\* The cache the call found held a token whose cached expiry the call's clock
\* reading was before.
EntryValid ==
    /\ last.entry.token # None
    /\ last.entry.token_expiry # None
    /\ last.at < last.entry.token_expiry[1]

\* The tokens the call attached to the requests it sent.
SentTokens == {last.sent[i].headers["Authorization"][2] : i \in DOMAIN last.sent}

\* C1 (cache reuse): in the sequential client the cached expiry is 19 minutes
\* after the signing of the cached token; a call whose clock reading is before
\* the cached expiry gets the cached token back, attaches that token, signs
\* nothing and leaves the cache as it was; so two signings are never less than
\* 19 minutes apart.
C1_CacheReuse ==
    /\ token # None => token_expiry = Some(token[1].iat + RefreshAfter)
    /\ (Called /\ EntryValid) =>
          /\ last.tok = last.entry.token
          /\ SentTokens \subseteq {last.entry.token[1]}
          /\ signLog = last.entry.signLog
          /\ token = last.entry.token
          /\ token_expiry = last.entry.token_expiry
    /\ \A i, j \in DOMAIN signLog : i < j => signLog[j] >= signLog[i] + RefreshAfter

\* A call one second before the cached expiry of the token signed at 0 has
\* sent a request with that token.
C1_Witness ==
    /\ Called /\ EntryValid
    /\ last.entry.token[1].iat = 0
    /\ last.at = RefreshAfter - 1
    /\ SentTokens = {last.entry.token[1]}

\* C2 (no stale token): every token attached to a request expires strictly
\* after the clock reading at which it is attached; and a call whose clock
\* reading is at or after the cached expiry (or that finds no token), the
\* signer working, signs a new token, stores it with its expiry and attaches
\* it, not the old one.
C2_NoStaleToken ==
    Called =>
      /\ \A i \in DOMAIN last.sent :
            last.sent[i].headers["Authorization"][2].exp > last.sent[i].at
      /\ (~EntryValid /\ last.in.signer = "ok") =>
            /\ Len(signLog) = Len(last.entry.signLog) + 1
            /\ token = Some([iat |-> last.at, exp |-> last.at + TokenLifetime,
                             sig |-> Len(signLog)])
            /\ token_expiry = Some(last.at + RefreshAfter)
            /\ last.tok = token
            /\ SentTokens \subseteq {token[1]}

\* A call exactly at the cached expiry of the token signed at 0 (60 s before
\* that token's exp) has sent a request with a new token.
C2_Witness ==
    /\ Called
    /\ last.entry.token # None
    /\ last.entry.token[1].iat = 0
    /\ last.at = RefreshAfter
    /\ last.at = last.entry.token[1].exp - SafetyMargin
    /\ SentTokens = {token[1]}
    /\ token # last.entry.token

\* The cache can be reused at the current clock: the condition of line 35.
Reusable == token # None /\ token_expiry # None /\ now < token_expiry[1]

\* C3 (no redundant signing under concurrency): with threads sharing the
\* client, two signings are never less than the refresh period apart (one
\* signing per refresh), and callers whose calls began at the same clock
\* reading were returned the same token.
C3_OneSigningPerRefresh ==
    /\ \A i, j \in DOMAIN signLog : i < j => signLog[j] >= signLog[i] + RefreshAfter
    /\ \A t, u \in Threads :
          (loc[t].tok # None /\ loc[u].tok # None /\ loc[t].at = loc[u].at)
              => loc[t].tok = loc[u].tok

\* C4 (no torn Credential under concurrency): whenever the reuse branch can
\* be taken, the cached token and the cached expiry were written by one and
\* the same signing, and the cached expiry is not later than the token's exp
\* less the safety margin.
C4_NoTornCredential ==
    Reusable =>
      /\ token[1].sig = expirySig
      /\ token_expiry[1] <= token[1].exp - SafetyMargin

\* The response of the call's single request had a status of 300 or more.
GotStatusFrom300 ==
    /\ Called
    /\ Len(last.sent) = 1
    /\ ~last.in.resp.failed
    /\ last.in.resp.status >= 300

\* C5 (statuses >= 300 are API errors): a call whose response has a status of
\* 300 or more raises an error that carries that status and the response
\* body unchanged, and returns no data.
C5_ErrorFromStatus300 ==
    GotStatusFrom300 =>
      /\ last.outcome.kind = "raise"
      /\ last.outcome.exc = "HTTPError"
      /\ last.outcome.status = last.in.resp.status
      /\ last.outcome.body = last.in.resp.body
      /\ last.outcome.value = None

\* C6 (cancelBuild issues a PATCH): a cancel_build call that obtained its
\* token has sent exactly one request, a PATCH to the build's endpoint whose
\* body marks the build canceled.
C6_CancelSendsPatch ==
    (Called /\ last.op = "cancel_build" /\ last.tok # None) =>
      /\ Len(last.sent) = 1
      /\ last.sent[1].method = "PATCH"
      /\ last.sent[1].url = base_url \o "/ciBuildRuns/" \o last.args.id
      /\ last.sent[1].json =
            Some([data |-> [type |-> "ciBuildRuns", id |-> Some(last.args.id),
                            attributes |-> ("canceled" :> TRUE)]])

\* A trigger_build call has sent its request.
Triggered == Called /\ last.op = "trigger_build" /\ Len(last.sent) = 1

\* The ref arguments of the call, by kind.
RefArgs ==
    ("branch" :> last.args.branch) @@ ("tag" :> last.args.tag)
        @@ ("commit" :> last.args.commit)

\* The attributes map of the body the call posted.
PostedAttributes == last.sent[1].json[1].data.attributes

\* C7 as claimed (one ref, any value that is not absent): with exactly one of
\* branch, tag, commit not None the posted attributes map holds that
\* attribute with its value and nothing else; with all three None it is
\* empty.
C7_OneRefNotAbsent ==
    Triggered =>
      LET given == {k \in DOMAIN RefArgs : RefArgs[k] # None}
      IN  /\ last.sent[1].method = "POST"
          /\ given = {} => PostedAttributes = <<>>
          /\ \A k \in given :
                given = {k} => PostedAttributes = (k :> RefArgs[k][1])

\* C7 as amended (one ref, any non-empty value): with exactly one of branch,
\* tag, commit a non-empty string (the others None or empty) the posted
\* attributes map holds that attribute with its value and nothing else; with
\* none of them a non-empty string it is empty.
C7_OneRefNonEmpty ==
    Triggered =>
      LET given == {k \in DOMAIN RefArgs : RefArgs[k] # None /\ RefArgs[k] # Some("")}
      IN  /\ last.sent[1].method = "POST"
          /\ given = {} => PostedAttributes = <<>>
          /\ \A k \in given :
                given = {k} => PostedAttributes = (k :> RefArgs[k][1])

\* trigger_build(tag="main") with branch empty and commit omitted has posted
\* a body whose only attribute is tag.
C7_Witness ==
    /\ Triggered
    /\ last.args.branch = Some("")
    /\ last.args.tag = Some("main")
    /\ last.args.commit = None
    /\ PostedAttributes = ("tag" :> "main")

\* The value of list_builds' limit for the call.
CalledLimit == IF last.args.limit = None THEN 20 ELSE last.args.limit[1]

\* C8 (listBuilds is bounded by limit): a list_builds call that obtained its
\* token has sent one GET, to the workflow's builds endpoint when a workflow
\* id is given and to the app's build runs otherwise, with the limit (20
\* when omitted); and what it returns is at most `limit` entries of the
\* response's data array.
C8_ListBuildsBounded ==
    (Called /\ last.op = "list_builds" /\ last.tok # None) =>
      /\ Len(last.sent) = 1
      /\ last.sent[1].method = "GET"
      /\ last.sent[1].url =
            base_url
            \o (IF last.args.workflow_id \in {None, Some("")}
                THEN "/apps/6751781514/ciBuildRuns"
                ELSE "/ciWorkflows/" \o last.args.workflow_id[1] \o "/builds")
            \o "?limit=" \o ToString(CalledLimit)
      /\ last.outcome.kind = "return" =>
            /\ Len(last.outcome.value[1]) <= CalledLimit
            /\ \A i \in DOMAIN last.outcome.value[1] :
                  last.outcome.value[1][i] = last.in.resp.body.data[i]

\* The call's request got no 2xx response: another status, or none at all.
GotNon2xx ==
    /\ Called
    /\ Len(last.sent) = 1
    /\ (last.in.resp.failed \/ last.in.resp.status < 200 \/ last.in.resp.status >= 300)

\* C9 (no internal retry): a call sends at most one request, and when that
\* request gets a non-2xx response or the transport fails, the call ends by
\* raising the error, having sent that one request only.
C9_NoRetry ==
    /\ Called => Len(last.sent) <= 1
    /\ GotNon2xx =>
          /\ last.outcome.kind = "raise"
          /\ last.outcome.exc \in {"HTTPError", "ConnectionError"}

\* The part of C9 that is about the number of requests alone.
AtMostOneRequest == Called => Len(last.sent) <= 1

\* C10 (no partial success): a download_artifact call that fails leaves the
\* destination as it found it.
C10_FailedDownloadLeavesFile ==
    (Called /\ last.op = "download_artifact" /\ last.outcome.kind = "raise")
        => file = last.fileBefore


\* C12 (request headers): every request a call sends carries
\* Authorization: Bearer <token> with the token _generate_jwt_token returned
\* to that call, which is the token the cache holds (the one it held at
\* entry when that was still valid); and every request that carries a body
\* also carries Content-Type: application/json.
C12_RequestHeaders ==
    Called =>
      \A i \in DOMAIN last.sent :
         LET h == last.sent[i].headers
         IN  /\ last.tok # None
             /\ last.tok = token
             /\ EntryValid => last.tok = last.entry.token
             /\ "Authorization" \in DOMAIN h
             /\ h["Authorization"] = <<"Bearer", last.tok[1]>>
             /\ last.sent[i].json # None =>
                   /\ "Content-Type" \in DOMAIN h
                   /\ h["Content-Type"] = <<"application/json">>

\* A build was triggered on a stale cache: the POST carries a body, the
\* content type, and the token signed for this call.
C12_Witness ==
    /\ Triggered
    /\ ~EntryValid
    /\ last.entry.token # None
    /\ last.sent[1].json # None
    /\ last.sent[1].headers["Content-Type"] = <<"application/json">>
    /\ last.sent[1].headers["Authorization"] = <<"Bearer", token[1]>>
    /\ token # last.entry.token

\* The call found no valid token and its signer failed.
SignerFailed == Called /\ ~EntryValid /\ last.in.signer \in {"nokey", "fail"}

\* C13 (signer failures are atomic): a call that finds the cache empty or
\* stale and whose key cannot be read or whose signing fails ends by raising
\* that error, has sent no request, has signed nothing, and leaves the cached
\* token, the cached expiry and the destination file as they were.
C13_SignerFailureAtomic ==
    SignerFailed =>
      /\ last.outcome.kind = "raise"
      /\ last.outcome.exc =
            (IF last.in.signer = "nokey" THEN "OSError" ELSE "EncodeError")
      /\ last.sent = <<>>
      /\ token = last.entry.token
      /\ token_expiry = last.entry.token_expiry
      /\ signLog = last.entry.signLog
      /\ file = last.fileBefore

\* The key could not be read when the cached token had just gone stale.
C13_Witness ==
    /\ SignerFailed
    /\ last.in.signer = "nokey"
    /\ last.entry.token # None
    /\ last.at = RefreshAfter
    /\ last.outcome.exc = "OSError"
    /\ token = last.entry.token

\* The download of the call ran to its end.
Downloaded ==
    Called /\ last.op = "download_artifact" /\ last.outcome.kind = "return"

\* C14 (download is byte for byte): after a download_artifact call that
\* returned, the destination holds the chunks of the response body, in the
\* order received, each once, and nothing of what it held before.
C14_DownloadByteForByte ==
    Downloaded =>
      /\ Len(last.sent) = 1
      /\ last.sent[1].stream
      /\ file = Some(last.in.resp.body.data)

\* A body of two chunks replaced what an earlier download had left.
C14_Witness ==
    /\ Downloaded
    /\ Len(last.in.resp.body.data) = 2
    /\ last.fileBefore # None
    /\ last.fileBefore # file
    /\ file = Some(<<1, 2>>)

\* The ref kinds in the order of the tests of lines 121-126.
Precedence == <<"branch", "tag", "commit">>

\* The first kind, in that order, among the kinds of `given`.
FirstOf(given) ==
    Precedence[CHOOSE i \in 1..3 :
                  /\ Precedence[i] \in given
                  /\ \A j \in 1..(i - 1) : Precedence[j] \notin given]

\* A trigger_build call that obtained its token.
TriggerCalled == Called /\ last.op = "trigger_build" /\ last.tok # None

\* C15 as claimed (several refs, any value that is not absent): a
\* trigger_build call given more than one of branch, tag, commit raises no
\* error of its own and posts the first of them only, branch before tag
\* before commit; and no call posts more than one ref.
C15_PrecedenceNotAbsent ==
    TriggerCalled =>
      LET given == {k \in DOMAIN RefArgs : RefArgs[k] # None}
      IN  /\ Len(last.sent) = 1
          /\ Cardinality(DOMAIN PostedAttributes) <= 1
          /\ Cardinality(given) > 1 =>
                PostedAttributes = (FirstOf(given) :> RefArgs[FirstOf(given)][1])

\* C15 (several refs, non-empty values): the same with a ref counted as
\* given when it is neither None nor the empty string.
C15_PrecedenceNonEmpty ==
    TriggerCalled =>
      LET given == {k \in DOMAIN RefArgs : RefArgs[k] # None /\ RefArgs[k] # Some("")}
      IN  /\ Len(last.sent) = 1
          /\ Cardinality(DOMAIN PostedAttributes) <= 1
          /\ Cardinality(given) > 1 =>
                PostedAttributes = (FirstOf(given) :> RefArgs[FirstOf(given)][1])

\* All three refs were given and the branch alone was posted.
C15_Witness ==
    /\ TriggerCalled
    /\ last.args.branch = Some("main")
    /\ last.args.tag = Some("main")
    /\ last.args.commit = Some("main")
    /\ PostedAttributes = ("branch" :> "main")

\* A call of the operation that asks the dispatcher for a method it does not
\* accept (cancel_build asks for PATCH).
UnsupportedCalled == Called /\ last.op = "cancel_build"

\* C16 (an unsupported method is rejected after the token is obtained): the
\* call sends no request; when its token was obtained it raises ValueError;
\* and when it found the cache empty or stale and the signer worked, the
\* cache holds a newly signed token and a new expiry although nothing was
\* sent.
C16_RejectedAfterToken ==
    UnsupportedCalled =>
      /\ last.sent = <<>>
      /\ last.outcome.kind = "raise"
      /\ last.tok # None => last.outcome.exc = "ValueError"
      /\ EntryValid =>
            /\ last.outcome.exc = "ValueError"
            /\ token = last.entry.token
            /\ token_expiry = last.entry.token_expiry
      /\ (~EntryValid /\ last.in.signer = "ok") =>
            /\ last.outcome.exc = "ValueError"
            /\ signLog = Append(last.entry.signLog, last.at)
            /\ token # None
            /\ token # last.entry.token
            /\ token[1].sig = Len(signLog)
            /\ token_expiry = Some(last.at + RefreshAfter)

\* A rejected call replaced a stale token and its expiry.
C16_Witness ==
    /\ UnsupportedCalled
    /\ ~EntryValid
    /\ last.entry.token # None
    /\ last.outcome.exc = "ValueError"
    /\ last.sent = <<>>
    /\ token # last.entry.token
    /\ token_expiry # last.entry.token_expiry


\* One of the four configuration values is None.
ConfigIncomplete == \E k \in DOMAIN config : config[k] = None

\* C11 (configuration is required): on a client constructed with one of
\* issuer_id, key_id, private_key_path, app_id absent, every operation ends
\* by raising an error and sends no request.
C11_IncompleteConfigSendsNothing ==
    (Called /\ ConfigIncomplete) =>
      /\ last.outcome.kind = "raise"
      /\ last.sent = <<>>

\* The part of C11 that is about the app id alone.
C11_NoAppIdSendsNothing ==
    (Called /\ config = [MainConfig EXCEPT !.app_id = None]) => last.sent = <<>>

====
